---- MODULE Spec2Model ----
(***************************************************************************)
(* The three programs of src/langchain: app.py (FastAPI routes and its     *)
(* lambda_handler), deploy_aws.py (Bedrock lambda_handler) and             *)
(* streamlit_app.py (the chat UI script).  One behaviour follows one       *)
(* process running one of the programs.  The language model, the vector    *)
(* store and the chat-history table are external: a call to one of them    *)
(* either returns or raises, chosen nondeterministically.                  *)
(***************************************************************************)
EXTENDS Integers, Sequences, FiniteSets, TLC

VARIABLES
    program,        \* which script this process runs
    environ_key,    \* os.environ["OPENAI_API_KEY"], Absent when unset
    data_dir,       \* os.path.exists("data")
    pc,             \* "import" | "running" | "aborted"
    llm,            \* app.py: llm
    conversation,   \* app.py: conversation
    memory,         \* app.py: memory, the inputs of the turns it buffers
    owners,         \* bookkeeping: the session_id each buffered turn came with
    vector_store,   \* app.py: vector_store
    retrieval_qa,   \* app.py: retrieval_qa ("undefined" while the name is unbound)
    init_outcome,   \* how the vector store initialisation of app.py ended
    table,          \* deploy_aws.py: the chat-history table, by session_id
    api_key,        \* streamlit_app.py: the sidebar's api_key
    messages,       \* streamlit_app.py: st.session_state.messages
    resp            \* what the last handler call produced

vars == <<program, environ_key, data_dir, pc, llm, conversation, memory, owners,
          vector_store, retrieval_qa, init_outcome, table, api_key, messages, resp>>

appVars == <<llm, conversation, memory, owners, vector_store, retrieval_qa, init_outcome>>

-----------------------------------------------------------------------------
(* Bounds and input sets *)

MaxTurns == 2
MaxMessages == 4

Absent == "<absent>"
Programs == {"app", "deploy_aws", "streamlit_app"}
Messages == {"hello", "bye"}
SessionIds == {"s1", "s2"}
Keys == {Absent, "", "sk-key"}

\* The raw JSON of a /chat request: message is required, session_id optional.
RawChatRequests == [message : Messages, session_id : SessionIds \cup {Absent}]
\* A Lambda event: a dict in which either key may be missing.
Events == [message : Messages \cup {Absent}, session_id : SessionIds \cup {Absent}]

\* What an external call does: it returns (NoError) or raises one of Errors.
NoError == [cls |-> "none", msg |-> ""]
Errors == {[cls |-> "RateLimitError", msg |-> "rate limit reached"],
           [cls |-> "Timeout", msg |-> "request timed out"]}
Outcomes == {NoError} \cup Errors
NameError == [cls |-> "NameError", msg |-> "name 'retrieval_qa' is not defined"]

\* The steps of the vector store initialisation of app.py that can raise.
InitOutcomes == {"ok", "load_failed", "split_failed", "store_failed", "chain_failed"}

-----------------------------------------------------------------------------
(* External calls *)

\* The model's reply: some function of the input and of the history it is given.
Predict(history, input) == [to |-> input, context |-> history]
NoReply == [to |-> Absent, context |-> <<>>]

\* retrieval_qa.run(query)
Run(q) == [to |-> q, context |-> <<"retrieved">>]

-----------------------------------------------------------------------------
(* Values a handler call produces *)

NoBody == [type |-> "none", response |-> NoReply, session_id |-> Absent, text |-> <<>>]

NoResp == [src |-> "none", status |-> 0, body |-> NoBody, detail |-> "",
           raised |-> NoError, escaped |-> NoError, req_message |-> Absent, req_session_id |-> Absent,
           health |-> "", version |-> "", used_owners |-> <<>>,
           called_model |-> FALSE, warning |-> FALSE]

\* raise HTTPException(status_code=..., detail=...): FastAPI turns it into the response.
HTTPException(src, status_code, detail) ==
    [NoResp EXCEPT !.src = src, !.status = status_code, !.detail = detail]

\* An exception no handler caught leaves the call.
Escapes(src, e) == [NoResp EXCEPT !.src = src, !.escaped = e]

\* Faulty variant: a clause that names one class only.
CatchesOnlyTimeout(e) == e.cls = "Timeout"
\* "except Exception": the classes the clause matches.  Every error an external
\* call raises here derives from Exception, and so does NameError.
ExceptionClasses == {"RateLimitError", "Timeout", "NameError"}
Catches(e) == e.cls \in ExceptionClasses

\* Faulty variant: an "is not None" test, which lets the empty key through.
TruthyWhenPresent(k) == k # Absent
\* Python truthiness of os.environ.get("OPENAI_API_KEY") and of api_key.
Truthy(k) == k # Absent /\ k # ""

-----------------------------------------------------------------------------
(* app.py: module level *)

\* The try block of the vector store initialisation: which names it has bound
\* when the step named by o raised (o = "ok": none did).
VectorStoreAfter(dataExists, o) ==
    IF dataExists /\ o \in {"ok", "chain_failed"} THEN "Chroma" ELSE "None"
RetrievalQaAfter(dataExists, o) ==
    IF dataExists /\ o = "ok" THEN "RetrievalQA" ELSE "undefined"

\* Faulty variant: no except clause, so a raising step ends the import.
SurvivesInitOnlyWhenOk(o) == o = "ok"
\* "except Exception as e: print(...)": whichever step raised, the failure is
\* printed and the module goes on to define the routes.
SurvivesInit(o) == o \in InitOutcomes

AppImport ==
    /\ program = "app"
    /\ pc = "import"
    /\ IF ~Truthy(environ_key)
       THEN \* raise ValueError("OPENAI_API_KEY environment variable is not set")
            /\ pc' = "aborted"
            /\ UNCHANGED appVars
       ELSE \E o \in InitOutcomes :
            IF data_dir /\ ~SurvivesInit(o)
            THEN /\ pc' = "aborted"
                 /\ llm' = "ChatOpenAI"
                 /\ conversation' = "ConversationChain"
                 /\ init_outcome' = o
                 /\ vector_store' = VectorStoreAfter(data_dir, o)
                 /\ retrieval_qa' = RetrievalQaAfter(data_dir, o)
                 /\ UNCHANGED <<memory, owners>>
            ELSE /\ pc' = "running"
                 /\ llm' = "ChatOpenAI"
                 /\ conversation' = "ConversationChain"
                 /\ memory' = <<>>
                 /\ owners' = <<>>
                 /\ init_outcome' = IF data_dir THEN o ELSE "no_data"
                 /\ vector_store' = VectorStoreAfter(data_dir, o)
                 /\ retrieval_qa' = RetrievalQaAfter(data_dir, o)
    /\ UNCHANGED <<program, environ_key, data_dir, table, api_key, messages, resp>>

-----------------------------------------------------------------------------
(* app.py: routes *)

\* Faulty variant: a status that depends on the vector store.
HealthBodyByStore(version) ==
    [status |-> IF vector_store = "Chroma" THEN "healthy" ELSE "degraded",
     version |-> version]
HealthBody(version) == [status |-> "healthy", version |-> version]

AppVersion == "1.0"

health_check ==
    /\ program = "app"
    /\ pc = "running"
    /\ resp' = [NoResp EXCEPT !.src = "health", !.status = 200,
                              !.health = HealthBody(AppVersion).status,
                              !.version = HealthBody(AppVersion).version]
    /\ UNCHANGED <<program, environ_key, data_dir, pc, table, api_key, messages>>
    /\ UNCHANGED appVars

\* class ChatRequest: session_id: Optional[str] = "default"
ChatRequest(raw) ==
    [message |-> raw.message,
     session_id |-> IF raw.session_id = Absent THEN "default" ELSE raw.session_id]

DictBody(response, session_id) ==
    [type |-> "dict", response |-> response, session_id |-> session_id, text |-> <<>>]

\* Faulty variant: the field default returned in place of the request's value.
ChatBodyDefaultSession(response, request) == DictBody(response, "default")
ChatBody(response, request) == DictBody(response, request.session_id)

\* conversation.predict(input=...) on the module's one chain: the history it is
\* given is the module's one memory, whatever session the request names.
chat(raw, o) ==
    /\ program = "app"
    /\ pc = "running"
    /\ o = NoError => Len(memory) < MaxTurns
    /\ LET request == ChatRequest(raw) IN
       IF o = NoError
       THEN /\ resp' = [NoResp EXCEPT !.src = "chat", !.status = 200,
                           !.body = ChatBody(Predict(memory, request.message), request),
                           !.req_message = raw.message,
                           !.req_session_id = raw.session_id,
                           !.used_owners = owners,
                           !.called_model = TRUE]
            /\ memory' = Append(memory, request.message)
            /\ owners' = Append(owners, request.session_id)
       ELSE /\ resp' = [(IF Catches(o) THEN HTTPException("chat", 500, o.msg)
                                       ELSE Escapes("chat", o))
                           EXCEPT !.raised = o,
                                  !.req_message = raw.message,
                                  !.req_session_id = raw.session_id,
                                  !.called_model = TRUE]
            /\ UNCHANGED <<memory, owners>>
    /\ UNCHANGED <<program, environ_key, data_dir, pc, llm, conversation,
                   vector_store, retrieval_qa, init_outcome, table, api_key, messages>>

\* Faulty variant: the guard tests retrieval_qa in place of vector_store.
QueryRefusedWithoutChain == retrieval_qa = "undefined"
QueryRefused == vector_store = "None"

query(q, o) ==
    /\ program = "app"
    /\ pc = "running"
    /\ IF QueryRefused
       THEN resp' = [HTTPException("query", 400, "Vector store not initialized")
                        EXCEPT !.req_message = q]
       ELSE LET e == IF retrieval_qa = "undefined" THEN NameError ELSE o IN
            IF e = NoError
            THEN resp' = [NoResp EXCEPT !.src = "query", !.status = 200,
                             !.body = [NoBody EXCEPT !.type = "dict", !.response = Run(q)],
                             !.req_message = q, !.called_model = TRUE]
            ELSE resp' = [(IF Catches(e) THEN HTTPException("query", 500, e.msg)
                                         ELSE Escapes("query", e))
                             EXCEPT !.raised = e,
                                    !.req_message = q,
                                    !.called_model = (retrieval_qa # "undefined")]
    /\ UNCHANGED <<program, environ_key, data_dir, pc, table, api_key, messages>>
    /\ UNCHANGED appVars

\* event.get(key, default)
EventGet(event, key, default) == IF event[key] = Absent THEN default ELSE event[key]

\* app.py lambda_handler: no try around conversation.predict.
app_lambda_handler(event, o) ==
    /\ program = "app"
    /\ pc = "running"
    /\ o = NoError => Len(memory) < MaxTurns
    /\ LET message == EventGet(event, "message", "")
           session_id == EventGet(event, "session_id", "default") IN
       IF o = NoError
       THEN /\ resp' = [NoResp EXCEPT !.src = "app_lambda", !.status = 200,
                           !.body = DictBody(Predict(memory, message), session_id),
                           !.req_message = event.message,
                           !.req_session_id = event.session_id,
                           !.used_owners = owners,
                           !.called_model = TRUE]
            /\ memory' = Append(memory, message)
            /\ owners' = Append(owners, session_id)
       ELSE /\ resp' = [Escapes("app_lambda", o)
                           EXCEPT !.raised = o,
                                  !.req_message = event.message,
                                  !.req_session_id = event.session_id,
                                  !.called_model = TRUE]
            /\ UNCHANGED <<memory, owners>>
    /\ UNCHANGED <<program, environ_key, data_dir, pc, llm, conversation,
                   vector_store, retrieval_qa, init_outcome, table, api_key, messages>>

-----------------------------------------------------------------------------
(* deploy_aws.py *)

TableKeys == SessionIds \cup {"default"}

RECURSIVE TurnsIn(_, _)
TurnsIn(t, keys) ==
    IF keys = {} THEN 0
    ELSE LET k == CHOOSE x \in keys : TRUE IN Len(t[k]) + TurnsIn(t, keys \ {k})

\* json.dumps of the body dict: a str holding the encoded fields, no longer a dict.
\* Faulty variant: the dict returned unencoded.
JsonDumpsIdentity(body) == body
JsonDumps(body) ==
    [type |-> "str", response |-> NoReply, session_id |-> Absent,
     text |-> <<"{\"response\": ", body.response, ", \"session_id\": ",
                body.session_id, "}">>]

\* deploy_aws.py lambda_handler: the history is the table's rows of session_id;
\* nothing catches what Bedrock, the table or predict raise.
aws_lambda_handler(event, o) ==
    /\ program = "deploy_aws"
    /\ pc = "running"
    /\ o = NoError => TurnsIn(table, TableKeys) < MaxTurns
    /\ LET session_id == EventGet(event, "session_id", "default")
           user_input == EventGet(event, "message", "") IN
       IF o = NoError
       THEN /\ resp' = [NoResp EXCEPT !.src = "aws_lambda", !.status = 200,
                           !.body = JsonDumps(DictBody(Predict(table[session_id], user_input),
                                                       session_id)),
                           !.req_message = event.message,
                           !.req_session_id = event.session_id,
                           !.called_model = TRUE]
            /\ table' = [table EXCEPT ![session_id] = Append(@, user_input)]
       ELSE /\ resp' = [Escapes("aws_lambda", o)
                           EXCEPT !.raised = o,
                                  !.req_message = event.message,
                                  !.req_session_id = event.session_id,
                                  !.called_model = TRUE]
            /\ UNCHANGED table
    /\ UNCHANGED <<program, environ_key, data_dir, pc, api_key, messages>>
    /\ UNCHANGED appVars

-----------------------------------------------------------------------------
(* streamlit_app.py *)

\* The sidebar: api_key = st.text_input(...); a non-empty key is exported.
sidebar(k) ==
    /\ program = "streamlit_app"
    /\ pc = "running"
    /\ k # Absent
    /\ k # api_key
    /\ api_key' = k
    /\ environ_key' = IF Truthy(k) THEN k ELSE environ_key
    /\ UNCHANGED <<program, data_dir, pc, table, messages, resp>>
    /\ UNCHANGED appVars

\* initialize_langchain(): (None, None) without a key, else a chain over a new,
\* empty ConversationBufferMemory.
initialize_langchain(key) == IF ~Truthy(key) THEN "None" ELSE "ConversationChain"

UserEntry(prompt) == [role |-> "user", content |-> prompt]
AssistantEntry(response) == [role |-> "assistant", content |-> response]

\* The entries one run of the chat input block appends for prompt, o being what
\* conversation.predict does when it is called.
\* Faulty variant: the two appends swapped.
AppendedAssistantFirst(prompt, conv, o) ==
    IF conv = "None" \/ o # NoError
    THEN <<UserEntry(prompt)>>
    ELSE <<AssistantEntry(Predict(<<>>, prompt)), UserEntry(prompt)>>
Appended(prompt, conv, o) ==
    IF conv = "None" \/ o # NoError
    THEN <<UserEntry(prompt)>>
    ELSE <<UserEntry(prompt), AssistantEntry(Predict(<<>>, prompt))>>

chat_input(prompt, o) ==
    /\ program = "streamlit_app"
    /\ pc = "running"
    /\ Len(messages) + 2 <= MaxMessages
    /\ LET conv == initialize_langchain(api_key) IN
       /\ conv = "None" => o = NoError
       /\ messages' = messages \o Appended(prompt, conv, o)
       /\ resp' = IF conv = "None"
                  THEN [NoResp EXCEPT !.src = "ui", !.warning = TRUE, !.req_message = prompt]
                  ELSE IF o = NoError
                  THEN [NoResp EXCEPT !.src = "ui", !.req_message = prompt,
                           !.body = [NoBody EXCEPT !.type = "markdown",
                                                   !.response = Predict(<<>>, prompt)],
                           !.called_model = TRUE]
                  ELSE [Escapes("ui", o) EXCEPT !.raised = o,
                                               !.req_message = prompt,
                                               !.called_model = TRUE]
    /\ UNCHANGED <<program, environ_key, data_dir, pc, table, api_key>>
    /\ UNCHANGED appVars

-----------------------------------------------------------------------------
(* Specification *)

Init ==
    /\ program \in Programs
    /\ environ_key \in Keys
    /\ data_dir \in BOOLEAN
    /\ pc = IF program = "app" THEN "import" ELSE "running"
    /\ llm = "undefined"
    /\ conversation = "undefined"
    /\ memory = <<>>
    /\ owners = <<>>
    /\ vector_store = "undefined"
    /\ retrieval_qa = "undefined"
    /\ init_outcome = "not_run"
    /\ table = [k \in TableKeys |-> <<>>]
    /\ api_key = ""
    /\ messages = <<>>
    /\ resp = NoResp

Next ==
    \/ AppImport
    \/ health_check
    \/ \E raw \in RawChatRequests, o \in Outcomes : chat(raw, o)
    \/ \E q \in Messages, o \in Outcomes : query(q, o)
    \/ \E event \in Events, o \in Outcomes : app_lambda_handler(event, o)
    \/ \E event \in Events, o \in Outcomes : aws_lambda_handler(event, o)
    \/ \E k \in Keys : sidebar(k)
    \/ \E prompt \in Messages, o \in Outcomes : chat_input(prompt, o)

Spec == Init /\ [][Next]_vars

-----------------------------------------------------------------------------
(* Properties *)

InitFailures == {"load_failed", "split_failed", "store_failed", "chain_failed"}
DefaultedSession(s) == IF s = Absent THEN "default" ELSE s
DefaultedMessage(m) == IF m = Absent THEN "" ELSE m

\* C1: POST /query answers 400 exactly when the start-up left vector_store unset
\* (no data directory, or loading, splitting or store creation raised); once
\* vector_store is set (also when only the chain creation raised) the answer is
\* 200 or 500, never 400, and nothing leaves the handler.
C1_Query400IffNoVectorStore ==
    resp.src = "query" =>
        /\ resp.escaped = NoError
        /\ (resp.status = 400) <=> (init_outcome \in {"no_data", "load_failed",
                                                      "split_failed", "store_failed"})
        /\ (resp.status = 400) <=> (vector_store = "None")
        /\ vector_store # "None" => resp.status \in {200, 500}

C1_Witness ==
    /\ resp.src = "query"
    /\ init_outcome = "chain_failed"
    /\ vector_store = "Chroma"
    /\ resp.status = 500

\* C2: every successful POST /chat answers with the session_id of its request,
\* "default" when the request has none, whatever requests came before.
C2_ChatEchoesSessionId ==
    (resp.src = "chat" /\ resp.status = 200) =>
        resp.body.session_id = DefaultedSession(resp.req_session_id)

C2_Witness ==
    /\ resp.src = "chat"
    /\ resp.status = 200
    /\ resp.req_session_id = "s2"
    /\ Len(memory) = 2
    /\ owners[1] = "s1"

\* C3: with OPENAI_API_KEY unset or empty app.py aborts at import before llm,
\* conversation or vector_store exist, and no route ever handles a request.
C3_MissingKeyAborts ==
    (program = "app" /\ environ_key \in {Absent, ""}) =>
        /\ pc \in {"import", "aborted"}
        /\ llm = "undefined"
        /\ conversation = "undefined"
        /\ vector_store = "undefined"
        /\ resp = NoResp
        /\ ~ENABLED health_check

C3_Witness ==
    /\ program = "app"
    /\ environ_key = ""
    /\ pc = "aborted"

\* C4: in every state of a started app.py process GET /health can be served, and
\* its answer is status "healthy" with the application version, whatever the
\* vector store and the earlier requests.
C4_HealthAlwaysHealthy ==
    /\ (program = "app" /\ pc = "running") => ENABLED health_check
    /\ resp.src = "health" =>
          /\ resp.status = 200
          /\ resp.health = "healthy"
          /\ resp.version = AppVersion

C4_Witness ==
    /\ resp.src = "health"
    /\ vector_store = "None"
    /\ init_outcome = "load_failed"
    /\ Len(memory) = 2

C6_AllFrontEndsCatch ==
    resp.src \in {"app_lambda", "aws_lambda", "ui"} => resp.escaped = NoError

\* C7 as stated: a handler call that returns has statusCode 200 and a body
\* object whose session_id and response are those of the event, and both
\* handlers return a body of that one shape.
C7_SameBodyShape ==
    (resp.src \in {"app_lambda", "aws_lambda"} /\ resp.escaped = NoError) =>
        /\ resp.status = 200
        /\ resp.body.type = "dict"
        /\ resp.body.session_id = DefaultedSession(resp.req_session_id)
        /\ resp.body.response.to = DefaultedMessage(resp.req_message)

\* json.loads: the fields the text of a dumped body encodes.
JsonLoads(text) == [response |-> text[2], session_id |-> text[4]]

\* C7 amended: a handler call that returns has statusCode 200; app.py's body is
\* an object {response, session_id}, deploy_aws.py's body is the JSON text of
\* such an object; in both the session_id is the event's ("default" when absent)
\* and the response is the model's reply to the event's message ("" when absent).
C7_BodyObjectOrJsonText ==
    (resp.src \in {"app_lambda", "aws_lambda"} /\ resp.escaped = NoError) =>
        /\ resp.status = 200
        /\ resp.src = "app_lambda" =>
              /\ resp.body.type = "dict"
              /\ resp.body.session_id = DefaultedSession(resp.req_session_id)
              /\ resp.body.response.to = DefaultedMessage(resp.req_message)
        /\ resp.src = "aws_lambda" =>
              /\ resp.body.type = "str"
              /\ Len(resp.body.text) = 5
              /\ JsonLoads(resp.body.text).session_id = DefaultedSession(resp.req_session_id)
              /\ JsonLoads(resp.body.text).response.to = DefaultedMessage(resp.req_message)

C7_Witness ==
    /\ resp.src = "aws_lambda"
    /\ resp.status = 200
    /\ resp.req_session_id = Absent
    /\ resp.req_message = Absent
    /\ resp.body.type = "str"

\* C8: the history a /chat request is answered from holds only turns that came
\* with the request's own session_id.
C8_HistoryOfOwnSessionOnly ==
    (resp.src = "chat" /\ resp.status = 200) =>
        /\ Len(resp.body.response.context) = Len(resp.used_owners)
        /\ \A i \in DOMAIN resp.used_owners : resp.used_owners[i] = resp.body.session_id

\* C9: the chat UI's history only grows by appending; a submitted prompt appends
\* exactly one user entry, first, holding the prompt; an assistant entry always
\* directly follows the user entry of the prompt it answers; without an API key
\* a prompt appends its user entry alone and the model is not called.
C9_Ordered ==
    \A i \in DOMAIN messages :
        /\ messages[i].role \in {"user", "assistant"}
        /\ messages[i].role = "assistant" =>
              /\ i > 1
              /\ messages[i - 1].role = "user"
              /\ messages[i].content = Predict(<<>>, messages[i - 1].content)

C9_Step ==
    /\ Len(messages') >= Len(messages)
    /\ SubSeq(messages', 1, Len(messages)) = messages
    /\ \A p \in Messages :
          (\E o \in Outcomes : chat_input(p, o)) =>
              LET new == SubSeq(messages', Len(messages) + 1, Len(messages')) IN
              /\ Len(new) \in {1, 2}
              /\ Cardinality({i \in DOMAIN new : new[i].role = "user"}) = 1
              /\ new[1].role = "user"
              /\ new[1].content = p
              /\ api_key = "" => (Len(new) = 1 /\ ~resp'.called_model)

C9_HistoryAppendOnly == []C9_Ordered /\ [][C9_Step]_vars

C9_Witness ==
    /\ Len(messages) >= 3
    /\ messages[1].role = "user"
    /\ messages[2].role = "user"
    /\ messages[3].role = "assistant"
    /\ api_key = ""

\* C10: when the data directory exists and a step of the vector store
\* initialisation raises, app.py still starts: /health can be served and is
\* healthy, /chat answers 200 from the model's reply or 500 as it does without a
\* data directory, and /query answers 400 or 500 with nothing leaving the handler.
C10_InitFailureNotFatal ==
    (program = "app" /\ init_outcome \in InitFailures) =>
        /\ pc = "running"
        /\ llm = "ChatOpenAI"
        /\ conversation = "ConversationChain"
        /\ ENABLED health_check
        /\ resp.src = "health" => resp.health = "healthy"
        /\ resp.src = "chat" =>
              /\ resp.escaped = NoError
              /\ resp.status = IF resp.raised = NoError THEN 200 ELSE 500
              /\ resp.status = 200 =>
                    /\ resp.body.response = Predict(resp.body.response.context, resp.req_message)
                    /\ memory = Append(resp.body.response.context, resp.req_message)
        /\ resp.src = "query" =>
              /\ resp.escaped = NoError
              /\ resp.status = IF init_outcome = "chain_failed" THEN 500 ELSE 400

C10_Witness ==
    /\ program = "app"
    /\ init_outcome = "store_failed"
    /\ resp.src = "chat"
    /\ resp.status = 200

====
